---- MODULE Spec2Model ----
(***************************************************************************)
(* A model of TDAmeritradeAPI (tdameritrade_api.py): a synchronous client  *)
(* that formats URLs and JSON bodies, sends them through _send_request     *)
(* and keeps the last response in self.response.                           *)
(*                                                                         *)
(* Every public method is one action.  The action runs the whole method,   *)
(* every _send_request it makes included, and leaves in `last` what an     *)
(* observer of the call sees: the arguments, the requests put on the wire  *)
(* (in order), the exception that left the method (if any) and the value   *)
(* returned.  Return models the caller taking that outcome.                *)
(***************************************************************************)
EXTENDS Integers, Sequences, FiniteSets, TLC

VARIABLES
    account_number,     \* self.account_number, per client instance
    oauth_certificate,  \* self.oauth_certificate, per client instance
    response,           \* self.response, per client instance
    srv_watchlists,     \* remote: the account's watchlists, in listing order
    srv_candles,        \* remote: the candle timestamps the server has per symbol
    last                \* outcome of the call in progress (NoCall when idle)

vars == <<account_number, oauth_certificate, response,
          srv_watchlists, srv_candles, last>>

-----------------------------------------------------------------------------
(* Bounds *)

MaxWatchlists == 2      \* watchlists the remote account holds, at most
MaxSymbols == 3         \* length of a symbol list passed to a method, at most
MaxTime == 2            \* candle timestamps are 1..MaxTime
MaxQty == 1             \* order quantities are 1..MaxQty
MaxOrders == 2          \* length of the list given to format_orders, at most

-----------------------------------------------------------------------------
(* Python values *)

\* Python's None for an optional argument; a present value x is <<x>>.
None == << >>

Some(x) == <<x>>

\* "{}".format(x) of an optional string argument: None prints as "None".
pyformat(x) == IF x = None THEN "None" ELSE x[1]

\* self.response = None (line 66)
NoResponse == [kind |-> "None"]

Clients == {"c1", "c2"}

Symbols == {"A", "B"}

WatchlistNames == {"w1", "w2"}

\* watchlistId of the i-th watchlist the server lists
WatchlistId(i) == "id" \o ToString(i)

WatchlistIds == {WatchlistId(i) : i \in 1..(MaxWatchlists + 1)}

Times == 1..MaxTime

\* sequences over S of length lo..hi
SeqsOf(S, lo, hi) == UNION {[1..n -> S] : n \in lo..hi}

\* The symbols of a list
SymbolsOf(symbols) == {symbols[i] : i \in 1..Len(symbols)}

\* Ticker symbols: those of Symbols and one of two characters.
Tickers == Symbols \cup {"AB"}

\* A symbols argument: a str, or a list of str.
PyStr(s) == [type |-> "str", value |-> s]

PyList(l) == [type |-> "list", items |-> l]

\* What iterating over a str yields: its characters, each a str.
chars(s) == IF s = "AB" THEN <<"A", "B">> ELSE <<s>>

\* The symbols argument taken as the iterable it is, a str not wrapped:
\* iterating over a str yields its characters.
symbols_as_iterable(symbols) ==
    IF symbols.type = "str" THEN chars(symbols.value) ELSE symbols.items

\* if type(symbols) is str: symbols = [symbols]
symbols_as_list(symbols) ==
    IF symbols.type = "str" THEN <<symbols.value>> ELSE symbols.items

\* sep.join(items)
join(sep, items) ==
    IF Len(items) = 0 THEN ""
    ELSE LET RECURSIVE cat(_)
             cat(k) == IF k = Len(items) THEN items[k]
                       ELSE items[k] \o sep \o cat(k + 1)
         IN  cat(1)

-----------------------------------------------------------------------------
(* The remote API, as far as the client can observe it *)

\* The JSON document the watchlists endpoint lists: one entry per watchlist.
WatchlistsJSON ==
    [i \in 1..Len(srv_watchlists) |->
        [name |-> srv_watchlists[i], watchlistId |-> WatchlistId(i)]]

\* The candles of symbol s, oldest first.
RECURSIVE SortedSeq(_)
SortedSeq(S) ==
    IF S = {} THEN << >>
    ELSE LET m == CHOOSE x \in S : \A y \in S : x <= y
         IN  <<m>> \o SortedSeq(S \ {m})

CandlesJSON(s) ==
    LET ts == SortedSeq(srv_candles[s])
    IN  [i \in 1..Len(ts) |-> [datetime |-> ts[i], close |-> ts[i]]]

\* The symbols a symbol= query parameter names: the parameter is split at
\* the escaped commas; a parameter that names no list of known tickers
\* selects nothing.
SymbolsNamed(param) ==
    LET lists == SeqsOf(Tickers, 0, MaxSymbols)
    IN  IF \E l \in lists : join("%2C", l) = param
        THEN SymbolsOf(CHOOSE l \in lists : join("%2C", l) = param)
        ELSE {}

\* The JSON document of the quotes endpoint: one quote per symbol named.
QuotesJSON(param) ==
    [s \in SymbolsNamed(param) |-> [symbol |-> s, assetType |-> "EQUITY"]]

\* The JSON document of the instruments endpoint, projection=fundamental.
InstrumentsJSON(param) ==
    [s \in SymbolsNamed(param) |->
        [symbol |-> s, assetType |-> "EQUITY",
         fundamental |-> [symbol |-> s, peRatio |-> "pe-" \o s]]]

\* The JSON document of the movers endpoint: the list of the movers of an
\* index in one direction, by percent or by value.
MoversJSON(index, direction, change) ==
    <<[symbol |-> index \o ":" \o direction, direction |-> direction,
       change |-> [amount |-> change], last |-> [price |-> index]]>>

\* What the server answers to a request that reaches it: a status and a body.
\* json says whether the body is a JSON document.
Reply(status, json, value) == [status |-> status, json |-> json, value |-> value]

Serve(url, method, anyjson) ==
    LET p == url.path
    IN  IF method = "GET" /\ Len(p) = 3 /\ p[3] = "watchlists"
        THEN Reply("ok", TRUE, [kind |-> "watchlists", list |-> WatchlistsJSON])
        ELSE IF method = "GET" /\ Len(p) = 4 /\ p[3] = "watchlists"
        THEN IF \E i \in 1..Len(srv_watchlists) : WatchlistId(i) = p[4]
             THEN LET i == CHOOSE j \in 1..Len(srv_watchlists) : WatchlistId(j) = p[4]
                  IN  Reply("ok", TRUE, [kind |-> "watchlist", item |-> WatchlistsJSON[i]])
             ELSE Reply("HTTPError", FALSE, [kind |-> "error"])
        ELSE IF method = "GET" /\ Len(p) = 3 /\ p[3] = "pricehistory"
        THEN Reply("ok", TRUE, [kind |-> "pricehistory", symbol |-> p[2],
                                candles |-> CandlesJSON(p[2])])
        ELSE IF method = "GET" /\ p = <<"marketdata", "quotes">>
        THEN Reply("ok", TRUE, [kind |-> "quotes", by |-> QuotesJSON(url.query.symbol)])
        ELSE IF method = "GET" /\ p = <<"instruments">>
        THEN Reply("ok", TRUE, [kind |-> "instruments",
                                by |-> InstrumentsJSON(url.query.symbol)])
        ELSE IF method = "GET" /\ p = <<"marketdata", "chains">>
        THEN Reply("ok", TRUE, [kind |-> "chain", symbol |-> url.query.symbol,
                                status |-> "SUCCESS"])
        ELSE IF method = "GET" /\ Len(p) = 3 /\ p[3] = "movers"
        THEN Reply("ok", TRUE, [kind |-> "movers",
                                list |-> MoversJSON(p[2], url.query.direction,
                                                    url.query.change)])
        ELSE IF method = "GET" /\ p[1] \in {"orders", "accounts"}
        THEN Reply("ok", TRUE, [kind |-> "records", of |-> p])
        ELSE \* a write: the API may or may not send a JSON document back
             Reply("ok", anyjson, [kind |-> "document"])

\* urllib.request.urlopen: the transport either fails with an HTTP error or
\* hands over what the server answered.
urlopen(url, method, fail, anyjson) ==
    IF fail THEN Reply("HTTPError", FALSE, [kind |-> "error"])
    ELSE Serve(url, method, anyjson)

-----------------------------------------------------------------------------
(* _send_request *)

\* The client object as _send_request sees it.
Self(c) == [account_number |-> account_number[c],
            oauth_certificate |-> oauth_certificate[c],
            response |-> response[c]]

\* env: what the world does to the n-th request of a call.
\*   env.failAt  the request (by position) the transport fails, 0 for none
\*   env.anyjson whether a write is answered with a JSON document
Envs(n) == [failAt : 0..n, anyjson : BOOLEAN]

\* The same for a method that only reads: what a write is answered is moot.
ReadEnvs(n) == [failAt : 0..n, anyjson : {FALSE}]

\* One request on the wire, as the transport saw it.
Wire(self, url, method, data, reply, parsed) ==
    [url |-> url, method |-> method, data |-> data,
     authorization |-> self.oauth_certificate,
     status |-> reply.status, parsed |-> parsed]

\* _send_request with an except clause that logs the HTTP error and does not
\* raise it again.
send_request_swallow(self, url, method, data, fail, anyjson) ==
    LET reply == urlopen(url, method, fail, anyjson)
    IN  IF reply.status # "ok"
        THEN [response |-> self.response, exc |-> "",
              wire |-> Wire(self, url, method, data, reply, FALSE)]
        ELSE IF data # None
        THEN [response |-> [kind |-> "HTTPResponse", json |-> reply.json],
              exc |-> "",
              wire |-> Wire(self, url, method, data, reply, FALSE)]
        ELSE IF reply.json
        THEN [response |-> [kind |-> "json", value |-> reply.value], exc |-> "",
              wire |-> Wire(self, url, method, data, reply, TRUE)]
        ELSE [response |-> self.response, exc |-> "JSONDecodeError",
              wire |-> Wire(self, url, method, data, reply, TRUE)]

\* _send_request with an except clause that sets self.response to None
\* before it raises the HTTP error again.
send_request_clearing(self, url, method, data, fail, anyjson) ==
    LET reply == urlopen(url, method, fail, anyjson)
    IN  IF reply.status # "ok"
        THEN [response |-> [kind |-> "None"], exc |-> "HTTPError",
              wire |-> Wire(self, url, method, data, reply, FALSE)]
        ELSE IF data # None
        THEN [response |-> [kind |-> "HTTPResponse", json |-> reply.json],
              exc |-> "",
              wire |-> Wire(self, url, method, data, reply, FALSE)]
        ELSE IF reply.json
        THEN [response |-> [kind |-> "json", value |-> reply.value], exc |-> "",
              wire |-> Wire(self, url, method, data, reply, TRUE)]
        ELSE [response |-> self.response, exc |-> "JSONDecodeError",
              wire |-> Wire(self, url, method, data, reply, TRUE)]

\* _send_request(url, method, data): returns the new self.response, the
\* exception raised ("" for none) and the request as sent.
send_request(self, url, method, data, fail, anyjson) ==
    LET reply == urlopen(url, method, fail, anyjson)
    IN  IF data = None
        THEN IF reply.status # "ok"
             THEN [response |-> self.response, exc |-> "HTTPError",
                   wire |-> Wire(self, url, method, data, reply, FALSE)]
             ELSE IF reply.json
             THEN [response |-> [kind |-> "json", value |-> reply.value],
                   exc |-> "",
                   wire |-> Wire(self, url, method, data, reply, TRUE)]
             ELSE [response |-> self.response, exc |-> "JSONDecodeError",
                   wire |-> Wire(self, url, method, data, reply, TRUE)]
        ELSE IF reply.status # "ok"
             THEN [response |-> self.response, exc |-> "HTTPError",
                   wire |-> Wire(self, url, method, data, reply, FALSE)]
             ELSE [response |-> [kind |-> "HTTPResponse", json |-> reply.json],
                   exc |-> "",
                   wire |-> Wire(self, url, method, data, reply, FALSE)]

\* The outcome of a method: self.response afterwards, the requests sent,
\* the exception that left the method and the value returned.
Outcome(resp, net, exc, ret) ==
    [response |-> resp, net |-> net, exc |-> exc, ret |-> ret, built |-> None]

\* The same, for a method that built a JSON body (data) on its way.
Built(out, data) == [out EXCEPT !.built = Some(data)]

NoValue == [kind |-> "None"]

-----------------------------------------------------------------------------
(* Watchlists *)

Url(path) == [path |-> path]

\* get_watchlists(self)
get_watchlists(self, env) ==
    LET r == send_request(self, Url(<<"accounts", self.account_number, "watchlists">>),
                          "GET", None, env.failAt = 1, env.anyjson)
    IN  Outcome(r.response, <<r.wire>>, r.exc,
                IF r.exc = "" THEN r.response ELSE NoValue)

\* The scan without its break: the last watchlist of that name wins.
FindWatchlistIdNoBreak(watchlists, name) ==
    IF \E i \in 1..Len(watchlists) : watchlists[i].name = name
    THEN LET i == CHOOSE j \in 1..Len(watchlists) :
                    /\ watchlists[j].name = name
                    /\ \A k \in (j + 1)..Len(watchlists) : watchlists[k].name # name
         IN  Some(watchlists[i].watchlistId)
    ELSE None

\* for watchlist in watchlists: if watchlist["name"] == name: id_num = ...; break
FindWatchlistId(watchlists, name) ==
    IF \E i \in 1..Len(watchlists) : watchlists[i].name = name
    THEN LET i == CHOOSE j \in 1..Len(watchlists) :
                    /\ watchlists[j].name = name
                    /\ \A k \in 1..(j - 1) : watchlists[k].name # name
         IN  Some(watchlists[i].watchlistId)
    ELSE None

\* get_watchlist that lists the watchlists when given neither id nor name.
get_watchlist_or_all(self, id_num, name, env) ==
    IF id_num # None
    THEN LET r == send_request(self,
                      Url(<<"accounts", self.account_number, "watchlists",
                            pyformat(id_num)>>),
                      "GET", None, env.failAt = 1, env.anyjson)
         IN  Outcome(r.response, <<r.wire>>, r.exc,
                     IF r.exc = "" THEN r.response ELSE NoValue)
    ELSE IF name # None
    THEN LET l == get_watchlists(self, env)
         IN  IF l.exc # ""
             THEN l
             ELSE LET found == FindWatchlistId(l.ret.value.list, name[1])
                      self2 == [self EXCEPT !.response = l.response]
                      r == send_request(self2,
                               Url(<<"accounts", self.account_number, "watchlists",
                                     pyformat(found)>>),
                               "GET", None, env.failAt = 2, env.anyjson)
                  IN  Outcome(r.response, l.net \o <<r.wire>>, r.exc,
                              IF r.exc = "" THEN r.response ELSE NoValue)
    ELSE get_watchlists(self, env)

\* get_watchlist(self, id_num=None, name=None)
get_watchlist(self, id_num, name, env) ==
    IF id_num # None
    THEN LET r == send_request(self,
                      Url(<<"accounts", self.account_number, "watchlists",
                            pyformat(id_num)>>),
                      "GET", None, env.failAt = 1, env.anyjson)
         IN  Outcome(r.response, <<r.wire>>, r.exc,
                     IF r.exc = "" THEN r.response ELSE NoValue)
    ELSE IF name # None
    THEN LET l == get_watchlists(self, env)
         IN  IF l.exc # ""
             THEN l
             ELSE LET found == FindWatchlistId(l.ret.value.list, name[1])
                      self2 == [self EXCEPT !.response = l.response]
                      r == send_request(self2,
                               Url(<<"accounts", self.account_number, "watchlists",
                                     pyformat(found)>>),
                               "GET", None, env.failAt = 2, env.anyjson)
                  IN  Outcome(r.response, l.net \o <<r.wire>>, r.exc,
                              IF r.exc = "" THEN r.response ELSE NoValue)
    ELSE Outcome(self.response, << >>, "ValueError", NoValue)

-----------------------------------------------------------------------------
(* Orders and transactions: default date windows *)

OrdersWindowDays == 1           \* timedelta(1), line 210

TransactionsWindowDays == 35    \* timedelta(35), line 247

DefaultMaxResults == 100        \* max_results=100, line 197

MaxDay == 61                    \* the clock reads day MaxDay - 1 or MaxDay

\* A datetime: a calendar day and a time of day.
Datetime(day, tod) == [day |-> day, tod |-> tod]

\* datetime.today(), whenever the method reads the clock
Nows == {Datetime(MaxDay - 1, 0), Datetime(MaxDay, 1)}

\* datetimes a caller may pass
GivenDates == {Datetime(MaxDay - 40, 1), Datetime(MaxDay - 2, 0)}

\* d - timedelta(n)
minus_days(d, n) == Datetime(d.day - n, d.tod)

\* d.strftime("%Y-%m-%d"): the calendar day, the time of day is dropped
strftime_ymd(d) == [ymd |-> d.day]

\* if to_date is None: to_date = datetime.today()
default_to(to_date, now) == IF to_date = None THEN now ELSE to_date[1]

\* The default window left out: from_date = datetime.today()
default_from_today(from_date, now, days) ==
    IF from_date = None THEN now ELSE from_date[1]

\* if from_date is None: from_date = datetime.today() - timedelta(days)
default_from(from_date, now, days) ==
    IF from_date = None THEN minus_days(now, days) ELSE from_date[1]

UrlQ(path, query) == [path |-> path, query |-> query]

\* get_orders(self, max_results, from_date, to_date, order_status)
get_orders(self, max_results, from_date, to_date, order_status, now, env) ==
    LET to == strftime_ymd(default_to(to_date, now))
        from == strftime_ymd(default_from(from_date, now, OrdersWindowDays))
        q == [accountId |-> self.account_number, maxResults |-> max_results,
              fromEnteredTime |-> from, toEnteredTime |-> to]
        url == IF order_status = None
               THEN UrlQ(<<"orders">>, q)
               ELSE UrlQ(<<"orders">>,
                         [accountId |-> q.accountId, maxResults |-> q.maxResults,
                          fromEnteredTime |-> from, toEnteredTime |-> to,
                          status |-> order_status[1]])
        r == send_request(self, url, "GET", None, env.failAt = 1, env.anyjson)
    IN  Outcome(r.response, <<r.wire>>, r.exc,
                IF r.exc = "" THEN r.response ELSE NoValue)

\* get_transactions(self, trans_type, from_date, to_date, symbol)
get_transactions(self, trans_type, from_date, to_date, symbol, now, env) ==
    LET to == strftime_ymd(default_to(to_date, now))
        from == strftime_ymd(default_from(from_date, now, TransactionsWindowDays))
        path == <<"accounts", self.account_number, "transactions">>
        url == IF symbol = None
               THEN UrlQ(path, [type |-> trans_type, startDate |-> from,
                                endDate |-> to])
               ELSE UrlQ(path, [type |-> trans_type, symbol |-> symbol[1],
                                startDate |-> from, endDate |-> to])
        r == send_request(self, url, "GET", None, env.failAt = 1, env.anyjson)
    IN  Outcome(r.response, <<r.wire>>, r.exc,
                IF r.exc = "" THEN r.response ELSE NoValue)

-----------------------------------------------------------------------------
(* Write operations *)

\* A Python call f(**kwargs) of a method whose keyword parameters are
\* `params`: a keyword the signature does not have raises TypeError.
AcceptsKeywords(kwargs, params) == DOMAIN kwargs \subseteq params

\* kwargs.get(k, default)
Keyword(kwargs, k, default) == IF k \in DOMAIN kwargs THEN kwargs[k] ELSE default

\* The request a write sends.
write_request(self, url, method, data, env) ==
    LET r == send_request(self, url, method, data, env.failAt = 1, env.anyjson)
    IN  Outcome(r.response, <<r.wire>>, r.exc, NoValue)

\* {"instrument": {"symbol": sym, "assetType": "EQUITY"}}
Instrument(sym) == [instrument |-> [symbol |-> sym, assetType |-> "EQUITY"]]

\* create_watchlist(self, name, symbols): _send_request(url, data=data)
create_watchlist(self, name, symbols, env) ==
    LET data == [name |-> name,
                 watchlistItems |-> [i \in 1..Len(symbols) |-> Instrument(symbols[i])]]
    IN  Built(write_request(self,
                  Url(<<"accounts", self.account_number, "watchlists">>),
                  "GET", Some(data), env), data)

\* replace_watchlist(self, watchlist_id, watchlist_name, symbols):
\* _send_request(url, data=parameters)
replace_watchlist(self, watchlist_id, watchlist_name, symbols, env) ==
    LET parameters ==
            [name |-> watchlist_name, watchlistId |-> watchlist_id,
             watchlistItems |-> [i \in 1..Len(symbols) |-> Instrument(symbols[i])]]
    IN  Built(write_request(self,
                  Url(<<"accounts", self.account_number, "watchlists", watchlist_id>>),
                  "GET", Some(parameters), env), parameters)

\* _create_saved_order(self, parameters=None): _send_request(url, data=parameters)
create_saved_order(self, kwargs, env) ==
    IF ~AcceptsKeywords(kwargs, {"parameters"})
    THEN Outcome(self.response, << >>, "TypeError", NoValue)
    ELSE write_request(self, Url(<<"accounts", self.account_number, "savedorders">>),
                       "GET", Keyword(kwargs, "parameters", None), env)

\* _place_order(self, method="GET", data=None):
\* _send_request(url, method=method, data=data)
place_order(self, kwargs, env) ==
    IF ~AcceptsKeywords(kwargs, {"method", "data"})
    THEN Outcome(self.response, << >>, "TypeError", NoValue)
    ELSE write_request(self, Url(<<"accounts", self.account_number, "orders">>),
                       Keyword(kwargs, "method", "GET"),
                       Keyword(kwargs, "data", None), env)

\* The two branches exchanged, the live order sent with data=data.
place_or_save_exchanged(self, data, place, env) ==
    IF place
    THEN Built(create_saved_order(self, [parameters |-> Some(data)], env), data)
    ELSE Built(place_order(self, [data |-> Some(data)], env), data)

\* if place: self._place_order(parameters=data)
\* else: self._create_saved_order(parameters=data)
place_or_save(self, data, place, env) ==
    IF place
    THEN Built(place_order(self, [parameters |-> Some(data)], env), data)
    ELSE Built(create_saved_order(self, [parameters |-> Some(data)], env), data)

\* round(price, 2) of a price given in thousandths: the price in hundredths,
\* a tie going to the even hundredth
round2(price) ==
    LET q == price \div 10
        r == price % 10
    IN  IF r < 5 THEN q
        ELSE IF r > 5 THEN q + 1
        ELSE IF q % 2 = 0 THEN q ELSE q + 1

\* str(x) of a number
pystr(x) == [str |-> x]

\* int(quantity) of a quantity given in halves: the fraction is dropped
pyint(quantity) == quantity \div 2

\* one entry of orderLegCollection
Leg(instruction, quantity, symbol) ==
    [instruction |-> instruction, quantity |-> quantity,
     instrument |-> [symbol |-> symbol, assetType |-> "EQUITY"]]

\* limit_order: data (lines 391-407)
limit_order_data(symbol, price, quantity, duration, instruction) ==
    [session |-> "SEAMLESS", duration |-> duration, orderType |-> "LIMIT",
     price |-> round2(price), orderStrategyType |-> "SINGLE",
     orderLegCollection |-> <<Leg(instruction, pyint(quantity), symbol)>>]

limit_order(self, symbol, price, quantity, duration, instruction, place, env) ==
    place_or_save(self,
        limit_order_data(symbol, price, quantity, duration, instruction), place, env)

\* stop_limit_order: data (lines 431-450)
stop_limit_order_data(symbol, instruction, quantity, duration, stop_price, limit_price) ==
    [session |-> "NORMAL", duration |-> duration, orderType |-> "STOP_LIMIT",
     stopPrice |-> pystr(round2(stop_price)), price |-> pystr(round2(limit_price)),
     stopPriceLinkBasis |-> "LAST", stopPriceLinkType |-> "VALUE",
     stopType |-> "STANDARD",
     orderLegCollection |-> <<Leg(instruction, pystr(pyint(quantity)), symbol)>>]

stop_limit_order(self, symbol, instruction, quantity, duration, stop_price, limit_price, place, env) ==
    place_or_save(self,
        stop_limit_order_data(symbol, instruction, quantity, duration,
                              stop_price, limit_price), place, env)

\* trailing_stop_order: data (lines 471-490)
trailing_stop_order_data(symbol, instruction, quantity, duration, trail_amount) ==
    [session |-> "NORMAL", duration |-> duration, orderType |-> "TRAILING_STOP",
     stopPriceOffset |-> pystr(round2(trail_amount)),
     stopPriceLinkBasis |-> "BID", stopPriceLinkType |-> "VALUE",
     stopType |-> "STANDARD", orderStrategyType |-> "SINGLE",
     orderLegCollection |-> <<Leg(instruction, pystr(pyint(quantity)), symbol)>>]

trailing_stop_order(self, symbol, instruction, quantity, duration, trail_amount, place, env) ==
    place_or_save(self,
        trailing_stop_order_data(symbol, instruction, quantity, duration,
                                 trail_amount), place, env)

\* trailing_stop_limit_order: data (lines 513-535)
trailing_stop_limit_order_data(symbol, instruction, quantity, duration, trail_amount) ==
    [session |-> "NORMAL", duration |-> duration,
     orderType |-> "TRAILING_STOP_LIMIT",
     stopPriceOffset |-> pystr(round2(trail_amount)),
     stopPriceLinkBasis |-> "LAST", stopPriceLinkType |-> "VALUE",
     stopType |-> "STANDARD",
     orderLegCollection |-> <<Leg(instruction, pystr(pyint(quantity)), symbol)>>]

trailing_stop_limit_order(self, symbol, instruction, quantity, duration, trail_amount, place, env) ==
    place_or_save(self,
        trailing_stop_limit_order_data(symbol, instruction, quantity, duration,
                                       trail_amount), place, env)

\* The chain with BUY_TO_COVER closed by a plain SELL.
bracket_child_instruction_cover_sells(instruction) ==
    IF instruction = "BUY" THEN Some("SELL")
    ELSE IF instruction = "SELL" THEN Some("BUY")
    ELSE IF instruction = "BUY_TO_COVER" THEN Some("SELL")
    ELSE IF instruction = "SELL_SHORT" THEN Some("BUY_TO_COVER")
    ELSE None

\* The child instruction, or None when no branch of the if/elif chain binds
\* child_instruction (lines 555-562)
bracket_child_instruction(instruction) ==
    IF instruction = "BUY" THEN Some("SELL")
    ELSE IF instruction = "SELL" THEN Some("BUY")
    ELSE IF instruction = "BUY_TO_COVER" THEN Some("SELL_SHORT")
    ELSE IF instruction = "SELL_SHORT" THEN Some("BUY_TO_COVER")
    ELSE None

\* bracket_order: data (lines 564-593)
bracket_order_data(symbol, instruction, child_instruction, price, quantity, profit_price, duration) ==
    [orderType |-> "LIMIT", orderStrategyType |-> "TRIGGER",
     session |-> "SEAMLESS", duration |-> duration,
     price |-> pystr(round2(price)),
     orderLegCollection |-> <<Leg(instruction, pystr(pyint(quantity)), symbol)>>,
     childOrderStrategies |-> <<
        [orderType |-> "LIMIT", orderStrategyType |-> "SINGLE",
         session |-> "NORMAL", duration |-> duration,
         price |-> pystr(round2(profit_price)),
         orderLegCollection |->
            <<Leg(child_instruction, pystr(pyint(quantity)), symbol)>>] >>]

\* bracket_order(self, symbol, instruction, price, quantity, profit_price, duration)
bracket_order(self, symbol, instruction, price, quantity, profit_price, duration, env) ==
    LET child == bracket_child_instruction(instruction)
    IN  IF child = None
        THEN Outcome(self.response, << >>, "UnboundLocalError", NoValue)
        ELSE LET data == bracket_order_data(symbol, instruction, child[1], price,
                                            quantity, profit_price, duration)
             IN  Built(place_order(self, [method |-> "POST", data |-> Some(data)],
                                   env), data)

\* lines 603-606
oto_child_instruction(instruction) ==
    IF instruction = "BUY" THEN Some("SELL")
    ELSE IF instruction = "SELL" THEN Some("BUY")
    ELSE None

\* The body with the trailing-stop child left out.
oto_limit_trail_order_data_one_child(symbol, instruction, child_instruction, limit_price, limit_quantity, trail_amount, trail_quantity, profit_price) ==
    [orderType |-> "LIMIT", session |-> "NORMAL", duration |-> "DAY",
     price |-> pystr(round2(limit_price)), orderStrategyType |-> "TRIGGER",
     orderLegCollection |->
        <<Leg(instruction, pystr(pyint(limit_quantity)), symbol)>>,
     childOrderStrategies |-> <<
        [orderType |-> "LIMIT", orderStrategyType |-> "SINGLE",
         session |-> "NORMAL", duration |-> "DAY",
         price |-> pystr(round2(profit_price)),
         orderLegCollection |->
            <<Leg(child_instruction,
                  pystr(pyint(limit_quantity + trail_quantity)), symbol)>>] >>]

\* oto_limit_trail_order: data (lines 608-657)
oto_limit_trail_order_data(symbol, instruction, child_instruction, limit_price, limit_quantity, trail_amount, trail_quantity, profit_price) ==
    [orderType |-> "LIMIT", session |-> "NORMAL", duration |-> "DAY",
     price |-> pystr(round2(limit_price)), orderStrategyType |-> "TRIGGER",
     orderLegCollection |->
        <<Leg(instruction, pystr(pyint(limit_quantity)), symbol)>>,
     childOrderStrategies |-> <<
        [orderType |-> "LIMIT", orderStrategyType |-> "SINGLE",
         session |-> "NORMAL", duration |-> "DAY",
         price |-> pystr(round2(profit_price)),
         orderLegCollection |->
            <<Leg(child_instruction,
                  pystr(pyint(limit_quantity + trail_quantity)), symbol)>>],
        [orderType |-> "TRAILING_STOP", orderStrategyType |-> "SINGLE",
         session |-> "NORMAL", duration |-> "DAY",
         stopPriceOffset |-> pystr(round2(trail_amount)),
         stopPriceLinkBasis |-> "LAST", stopPriceLinkType |-> "VALUE",
         stopType |-> "STANDARD",
         orderLegCollection |->
            <<Leg(instruction, pystr(pyint(trail_quantity)), symbol)>>] >>]

\* oto_limit_trail_order(self, symbol, instruction, limit_price, limit_quantity,
\*                       trail_amount, trail_quantity, profit_price)
oto_limit_trail_order(self, symbol, instruction, limit_price, limit_quantity, trail_amount, trail_quantity, profit_price, env) ==
    LET child == oto_child_instruction(instruction)
    IN  IF child = None
        THEN Outcome(self.response, << >>, "UnboundLocalError", NoValue)
        ELSE LET data == oto_limit_trail_order_data(symbol, instruction, child[1],
                             limit_price, limit_quantity, trail_amount,
                             trail_quantity, profit_price)
             IN  Built(place_order(self, [parameters |-> Some(data)], env), data)

\* cancel_order(self, order_id): _send_request(url, method="DELETE")
cancel_order(self, order_id, env) ==
    write_request(self, Url(<<"accounts", self.account_number, "orders", order_id>>),
                  "DELETE", None, env)

\* replace_order(self, order_id, order): _send_request(url, data=order, method="PUT")
replace_order(self, order_id, order, env) ==
    write_request(self, Url(<<"accounts", self.account_number, "orders", order_id>>),
                  "PUT", Some(order), env)

-----------------------------------------------------------------------------
(* Price history *)

\* int(d.strftime("%s")) * 1000
epoch_ms(d) == [epoch |-> d, unit |-> "ms"]

\* datetime.fromtimestamp(t / 1000.), with .date() unless the frequency type
\* is "minute"
index_key(t, frequency_type) == [stamp |-> t, time |-> frequency_type = "minute"]

\* The local temp_data after one pass of the loop body (lines 722-743):
\* np.array(rows) of no rows has one dimension, so temp_data[:, 0] raises
\* IndexError and temp_data stays the array; else it becomes the DataFrame.
candle_table(candles, frequency_type) ==
    IF Len(candles) = 0
    THEN [kind |-> "ndarray"]
    ELSE [kind |-> "DataFrame",
          index |-> [i \in 1..Len(candles) |->
                        index_key(candles[i].datetime, frequency_type)],
          close |-> [i \in 1..Len(candles) |-> candles[i].close]]

\* Where the loop stands: self.response, the requests sent, the dict `data`
\* (symbol -> DataFrame), the local temp_data and the exception raised.
LoopState(resp, net, data, temp_data, exc) ==
    [response |-> resp, net |-> net, data |-> data, temp_data |-> temp_data,
     exc |-> exc]

\* data.update({symbol: temp_data})
dict_update(data, k, v) ==
    [x \in DOMAIN data \cup {k} |-> IF x = k THEN v ELSE data[x]]

\* for symbol in symbols: ... (lines 716-745), from the i-th symbol on
RECURSIVE price_history_loop(_, _, _, _, _, _)
price_history_loop(self, symbols, i, url_of, frequency_type, st) ==
    IF i > Len(symbols) \/ st.exc # ""
    THEN st
    ELSE LET r == send_request([self EXCEPT !.response = st.response],
                               url_of[symbols[i]], "GET", None,
                               Len(st.net) + 1 = self.failAt, FALSE)
             net == Append(st.net, r.wire)
         IN  IF r.exc # ""
             THEN LoopState(r.response, net, st.data, st.temp_data, r.exc)
             ELSE LET t == candle_table(r.response.value.candles, frequency_type)
                  IN  price_history_loop(self, symbols, i + 1, url_of,
                          frequency_type,
                          IF t.kind = "ndarray"
                          THEN LoopState(r.response, net, st.data, t, "")
                          ELSE LoopState(r.response, net,
                                         dict_update(st.data, symbols[i], t),
                                         t, ""))

\* Position of key k in the index, 0 if absent.
index_of(index, k) ==
    IF \E j \in 1..Len(index) : index[j] = k
    THEN CHOOSE j \in 1..Len(index) : index[j] = k
    ELSE 0

\* bars[d] = data[d] followed by fillna(method="ffill"): the column of d on
\* the rows of `index`; a row d has no candle for takes the value of the row
\* above, and NaN (0) when there is none.
RECURSIVE ffill_column(_, _, _)
ffill_column(index, table, n) ==
    IF n = 0 THEN << >>
    ELSE LET above == ffill_column(index, table, n - 1)
             j == index_of(table.index, index[n])
         IN  Append(above, IF j # 0 THEN table.close[j]
                           ELSE IF n = 1 THEN 0 ELSE above[n - 1])

\* lines 747-760: the table returned, built on temp_data.index
bars_of(data, temp_data) ==
    [kind |-> "bars",
     index |-> temp_data.index,
     columns |-> DOMAIN data,
     close |-> [d \in DOMAIN data |->
                    ffill_column(temp_data.index, data[d], Len(temp_data.index))]]

\* get_price_history(self, symbols, frequency_type, frequency, start_date,
\*                   end_date, extended_hours)
get_price_history(self, symbols, frequency_type, start_date, end_date, env) ==
    LET q == [frequencyType |-> frequency_type, frequency |-> 1,
              endDate |-> epoch_ms(end_date), startDate |-> epoch_ms(start_date),
              needExtendedHoursData |-> TRUE,
              periodType |-> IF frequency_type # "minute" THEN "year" ELSE ""]
        url_of == [s \in Symbols |-> UrlQ(<<"marketdata", s, "pricehistory">>, q)]
        st == price_history_loop(
                  [account_number |-> self.account_number,
                   oauth_certificate |-> self.oauth_certificate,
                   response |-> self.response, failAt |-> env.failAt],
                  symbols, 1, url_of, frequency_type,
                  LoopState(self.response, << >>, << >>, [kind |-> "unbound"], ""))
    IN  IF st.exc # ""
        THEN Outcome(st.response, st.net, st.exc, NoValue)
        ELSE IF st.temp_data.kind = "unbound"
        THEN Outcome(st.response, st.net, "UnboundLocalError", NoValue)
        ELSE IF st.temp_data.kind = "ndarray"
        THEN Outcome(st.response, st.net, "AttributeError", NoValue)
        ELSE Outcome(st.response, st.net, "", bars_of(st.data, st.temp_data))

-----------------------------------------------------------------------------
(* Quotes, fundamentals and options chains *)

\* get_quotes(self, symbols): one request for all the symbols;
\* pd.DataFrame(self.response).T has one row per key of the response
get_quotes(self, symbols, env) ==
    LET symbol_url == join("%2C", symbols_as_list(symbols))
        r == send_request(self, UrlQ(<<"marketdata", "quotes">>,
                                     [symbol |-> symbol_url]),
                          "GET", None, env.failAt = 1, env.anyjson)
    IN  Outcome(r.response, <<r.wire>>, r.exc,
                IF r.exc = ""
                THEN [kind |-> "DataFrame", rows |-> r.response.value.by]
                ELSE NoValue)

\* get_fundamental with a request for each symbol, the results merged.
get_fundamental_per_symbol(self, symbols, env) ==
    LET items == symbols_as_list(symbols)
        RECURSIVE loop(_, _, _, _)
        loop(i, resp, net, data) ==
            IF i > Len(items)
            THEN Outcome(resp, net, "", [kind |-> "DataFrame", rows |-> data])
            ELSE LET r == send_request([self EXCEPT !.response = resp],
                              UrlQ(<<"instruments">>,
                                   [symbol |-> items[i],
                                    projection |-> "fundamental"]),
                              "GET", None, env.failAt = i, env.anyjson)
                 IN  IF r.exc # ""
                     THEN Outcome(r.response, Append(net, r.wire), r.exc, NoValue)
                     ELSE LET by == r.response.value.by
                          IN  loop(i + 1, r.response, Append(net, r.wire),
                                   [t \in DOMAIN data \cup DOMAIN by |->
                                       IF t \in DOMAIN by THEN by[t].fundamental
                                       ELSE data[t]])
    IN  loop(1, self.response, << >>, << >>)

\* get_fundamental(self, symbols): one request for all the symbols;
\* data[ticker] = self.response[ticker]['fundamental'] for each key
get_fundamental(self, symbols, env) ==
    LET symbol_url == join("%2C", symbols_as_list(symbols))
        r == send_request(self, UrlQ(<<"instruments">>,
                                     [symbol |-> symbol_url,
                                      projection |-> "fundamental"]),
                          "GET", None, env.failAt = 1, env.anyjson)
    IN  Outcome(r.response, <<r.wire>>, r.exc,
                IF r.exc = ""
                THEN LET by == r.response.value.by
                     IN  [kind |-> "DataFrame",
                          rows |-> [t \in DOMAIN by |-> by[t].fundamental]]
                ELSE NoValue)

\* The url of get_options_chain for one symbol (lines 793-796, 800-803)
options_chain_url(symbol, contract_type, strike_count, include_quotes, strategy, strike, from_date, to_date) ==
    IF strike = None
    THEN UrlQ(<<"marketdata", "chains">>,
              [symbol |-> symbol, contractType |-> contract_type,
               strikeCount |-> strike_count,
               includeQuotes |-> IF include_quotes THEN "TRUE" ELSE "FALSE",
               strategy |-> strategy,
               fromDate |-> strftime_ymd(from_date),
               toDate |-> strftime_ymd(to_date)])
    ELSE UrlQ(<<"marketdata", "chains">>,
              [symbol |-> symbol, contractType |-> contract_type,
               strike |-> strike[1],
               includeQuotes |-> IF include_quotes THEN "TRUE" ELSE "FALSE",
               strategy |-> strategy,
               fromDate |-> strftime_ymd(from_date),
               toDate |-> strftime_ymd(to_date)])

\* The loop of get_options_chain over the symbols from last to first.
RECURSIVE options_chain_loop_backwards(_, _, _, _, _)
options_chain_loop_backwards(self, symbols, i, url_of, st) ==
    IF i > Len(symbols) \/ st.exc # ""
    THEN st
    ELSE LET symbol == symbols[Len(symbols) + 1 - i]
             r == send_request([self EXCEPT !.response = st.response],
                               url_of[symbol], "GET", None,
                               Len(st.net) + 1 = self.failAt, FALSE)
             net == Append(st.net, r.wire)
         IN  IF r.exc # ""
             THEN LoopState(r.response, net, st.data, st.temp_data, r.exc)
             ELSE options_chain_loop_backwards(self, symbols, i + 1, url_of,
                      LoopState(r.response, net,
                                dict_update(st.data, symbol, r.response),
                                st.temp_data, ""))

\* for symbol in symbols: self._send_request(url);
\* data.update({symbol: self.response}), from the i-th symbol on
RECURSIVE options_chain_loop(_, _, _, _, _)
options_chain_loop(self, symbols, i, url_of, st) ==
    IF i > Len(symbols) \/ st.exc # ""
    THEN st
    ELSE LET r == send_request([self EXCEPT !.response = st.response],
                               url_of[symbols[i]], "GET", None,
                               Len(st.net) + 1 = self.failAt, FALSE)
             net == Append(st.net, r.wire)
         IN  IF r.exc # ""
             THEN LoopState(r.response, net, st.data, st.temp_data, r.exc)
             ELSE options_chain_loop(self, symbols, i + 1, url_of,
                      LoopState(r.response, net,
                                dict_update(st.data, symbols[i], r.response),
                                st.temp_data, ""))

\* get_options_chain(self, symbols, contract_type, strike_count,
\*                   include_quotes, strategy, strike, from_date, to_date)
get_options_chain(self, symbols, contract_type, strike_count, include_quotes, strategy, strike, from_date, to_date, env) ==
    LET url_of == [s \in Tickers |->
                      options_chain_url(s, contract_type, strike_count,
                                        include_quotes, strategy, strike,
                                        from_date, to_date)]
        st == options_chain_loop(
                  [account_number |-> self.account_number,
                   oauth_certificate |-> self.oauth_certificate,
                   response |-> self.response, failAt |-> env.failAt],
                  symbols_as_list(symbols), 1, url_of,
                  LoopState(self.response, << >>, << >>, [kind |-> "unbound"], ""))
    IN  IF st.exc # ""
        THEN Outcome(st.response, st.net, st.exc, NoValue)
        ELSE Outcome(st.response, st.net, "", [kind |-> "dict", by |-> st.data])

-----------------------------------------------------------------------------
(* Market movers *)

\* for index in ["$DJI", "$SPX.X", "$COMPX"]
MoverIndexes == <<"$DJI", "$SPX.X", "$COMPX">>

\* for direction in ["up", "down"]
MoverDirections == <<"up", "down">>

\* The (index, direction) pairs in the order the nested loops visit them.
MoverPairs ==
    [j \in 1..(Len(MoverIndexes) * Len(MoverDirections)) |->
        <<MoverIndexes[((j - 1) \div Len(MoverDirections)) + 1],
          MoverDirections[((j - 1) % Len(MoverDirections)) + 1]>>]

\* The requests a complete get_movers sends: the pairs, once for each kind
\* of change.
MoversRequests == Len(MoverPairs) + Len(MoverPairs)

\* "marketdata/{}/movers?direction={}&change=..."
movers_url(index, direction, change) ==
    UrlQ(<<"marketdata", index, "movers">>,
         [direction |-> direction, change |-> change])

\* The loop variables after the request r of the loop body:
\* self._send_request(url); temp += self.response.  st.data is temp.
movers_after(st, r) ==
    LoopState(r.response, Append(st.net, r.wire),
              IF r.exc = "" THEN st.data \o r.response.value.list ELSE st.data,
              st.temp_data, r.exc)

\* One pass of the nested loops (lines 978-982, 987-991), from the j-th
\* pair on
RECURSIVE movers_loop(_, _, _, _)
movers_loop(self, change, j, st) ==
    IF j > Len(MoverPairs) \/ st.exc # ""
    THEN st
    ELSE movers_loop(self, change, j + 1,
             movers_after(st,
                 send_request([self EXCEPT !.response = st.response],
                              movers_url(MoverPairs[j][1], MoverPairs[j][2], change),
                              "GET", None, Len(st.net) + 1 = self.failAt, FALSE)))

\* pd.DataFrame(temp) with set_index("symbol")
movers_table(temp) ==
    [kind |-> "DataFrame",
     index |-> [k \in 1..Len(temp) |-> temp[k].symbol],
     rows |-> [k \in 1..Len(temp) |->
                  [direction |-> temp[k].direction, change |-> temp[k].change,
                   last |-> temp[k].last]]]

\* The second pass (lines 986-991), after the first one ended as `percent`:
\* temp starts empty again.
movers_value_pass(self, percent) ==
    IF percent.exc # "" THEN percent
    ELSE movers_loop(self, "value", 1,
             LoopState(percent.response, percent.net, << >>, percent.temp_data, ""))

\* Lines 992-998, the passes having ended as `percent` and `value`.
\* movers.append(temp) changes nothing in place: the table returned is that
\* of the percent movers; no_append says that the pandas installed has no
\* DataFrame.append any more.
movers_outcome(percent, value, no_append) ==
    IF value.exc # ""
    THEN Outcome(value.response, value.net, value.exc, NoValue)
    ELSE IF no_append
    THEN Outcome(value.response, value.net, "AttributeError", NoValue)
    ELSE Outcome(value.response, value.net, "", movers_table(percent.data))

\* The first pass and what follows it.
movers_passes(self, percent, no_append) ==
    movers_outcome(percent, movers_value_pass(self, percent), no_append)

\* get_movers(self)
get_movers(self, env) ==
    movers_passes([account_number |-> self.account_number,
                   oauth_certificate |-> self.oauth_certificate,
                   response |-> self.response, failAt |-> env.failAt],
                  movers_loop([account_number |-> self.account_number,
                               oauth_certificate |-> self.oauth_certificate,
                               response |-> self.response, failAt |-> env.failAt],
                              "percent", 1,
                              LoopState(self.response, << >>, << >>,
                                        [kind |-> "unbound"], "")),
                  env.no_append)

-----------------------------------------------------------------------------
(* Order formatting *)

\* format_order without the test on the number of legs.
format_order_any_legs(order) ==
    IF /\ order.complexOrderStrategyType = "NONE"
       /\ order.quantity = order.remainingQuantity
       /\ Len(order.orderLegCollection) >= 1
    THEN LET leg == order.orderLegCollection[1]
         IN  [exc |-> "",
              temp |-> [price |-> order.price,
                        session |-> order.session,
                        type |-> order.orderType,
                        duration |-> order.duration,
                        symbol |-> leg.instrument.symbol,
                        instruction |-> leg.instruction,
                        quantity |-> leg.quantity,
                        position_effect |-> leg.positionEffect,
                        id |-> order.orderId,
                        time |-> IF order.duration = "GOOD_TILL_CANCEL"
                                 THEN order.cancelTime ELSE "",
                        childId |-> IF "childOrderStrategies" \in DOMAIN order
                                    THEN order.childOrderStrategies[1].orderId
                                    ELSE ""]]
    ELSE [exc |-> "NotImplementedError"]

\* format_order(order), lines 865-896: the flat record, or the exception.
format_order(order) ==
    IF /\ order.complexOrderStrategyType = "NONE"
       /\ order.quantity = order.remainingQuantity
       /\ Len(order.orderLegCollection) = 1
    THEN LET leg == order.orderLegCollection[1]
         IN  [exc |-> "",
              temp |-> [price |-> order.price,
                        session |-> order.session,
                        type |-> order.orderType,
                        duration |-> order.duration,
                        symbol |-> leg.instrument.symbol,
                        instruction |-> leg.instruction,
                        quantity |-> leg.quantity,
                        position_effect |-> leg.positionEffect,
                        id |-> order.orderId,
                        time |-> IF order.duration = "GOOD_TILL_CANCEL"
                                 THEN order.cancelTime ELSE "",
                        childId |-> IF "childOrderStrategies" \in DOMAIN order
                                    THEN order.childOrderStrategies[1].orderId
                                    ELSE ""]]
    ELSE [exc |-> "NotImplementedError"]

\* The loop leaving out, without raising, what format_order cannot format.
RECURSIVE format_orders_loop_skipping(_, _, _)
format_orders_loop_skipping(orders, i, f_ord) ==
    IF i > Len(orders)
    THEN [exc |-> "", f_ord |-> f_ord]
    ELSE LET order == orders[i]
             parent == format_order(order)
             with_parent == IF parent.exc # "" THEN f_ord
                            ELSE Append(f_ord, parent.temp)
         IN  IF "childOrderStrategies" \in DOMAIN order
             THEN LET child == format_order(order.childOrderStrategies[1])
                  IN  format_orders_loop_skipping(orders, i + 1,
                          IF child.exc # "" THEN with_parent
                          ELSE Append(with_parent, child.temp))
             ELSE format_orders_loop_skipping(orders, i + 1, with_parent)

\* for order in orders: ... (lines 899-903), from the i-th order on; f_ord is
\* the list built so far
RECURSIVE format_orders_loop(_, _, _)
format_orders_loop(orders, i, f_ord) ==
    IF i > Len(orders)
    THEN [exc |-> "", f_ord |-> f_ord]
    ELSE LET order == orders[i]
             parent == format_order(order)
         IN  IF parent.exc # ""
             THEN [exc |-> parent.exc]
             ELSE IF "childOrderStrategies" \in DOMAIN order
             THEN LET child == format_order(order.childOrderStrategies[1])
                  IN  IF child.exc # ""
                      THEN [exc |-> child.exc]
                      ELSE format_orders_loop(orders, i + 1,
                               f_ord \o <<parent.temp, child.temp>>)
             ELSE format_orders_loop(orders, i + 1, Append(f_ord, parent.temp))

\* The columns DataFrame.from_records keeps (lines 907-908)
FormatColumns == {"symbol", "instruction", "price", "quantity", "type", "session",
                  "duration", "time", "position_effect", "childId"}

\* format_orders(self, orders): the table, one row per record of f_ord,
\* indexed by the records' ids
format_orders(self, orders) ==
    LET l == format_orders_loop(orders, 1, << >>)
    IN  IF l.exc # ""
        THEN Outcome(self.response, << >>, l.exc, NoValue)
        ELSE Outcome(self.response, << >>, "",
                 [kind |-> "DataFrame",
                  index |-> [k \in 1..Len(l.f_ord) |-> l.f_ord[k].id],
                  rows |-> [k \in 1..Len(l.f_ord) |->
                               [col \in FormatColumns |-> l.f_ord[k][col]]]])

-----------------------------------------------------------------------------
(* The state machine *)

NoCall == [op |-> "idle"]

Call(c, op, args, out) ==
    [op |-> op, client |-> c, args |-> args, before |-> response[c],
     net |-> out.net, exc |-> out.exc, ret |-> out.ret, built |-> out.built]

\* No call is in progress.
Idle == last = NoCall

\* The method ran on client c, the client fetching a new token after an
\* HTTP error.
RanRefreshingToken(c, op, args, out) ==
    /\ response' = [response EXCEPT ![c] = out.response]
    /\ last' = Call(c, op, args, out)
    /\ oauth_certificate' =
           IF out.exc = "HTTPError"
           THEN [oauth_certificate EXCEPT ![c] = "token-refreshed"]
           ELSE oauth_certificate
    /\ UNCHANGED <<account_number, srv_watchlists, srv_candles>>

\* The method ran on client c, response being one slot of the class, shared
\* by its instances.
RanSharedSlot(c, op, args, out) ==
    /\ response' = [x \in Clients |-> out.response]
    /\ last' = Call(c, op, args, out)
    /\ UNCHANGED <<account_number, oauth_certificate, srv_watchlists, srv_candles>>

\* The method ran on client c with outcome out.
Ran(c, op, args, out) ==
    /\ response' = [response EXCEPT ![c] = out.response]
    /\ last' = Call(c, op, args, out)
    /\ UNCHANGED <<account_number, oauth_certificate, srv_watchlists, srv_candles>>

DefaultWatchlists == <<"w1", "w2">>

DefaultCandles == [s \in Symbols |-> IF s = "A" THEN {1} ELSE {}]

\* __init__ (lines 64-66), for each client
InitClients ==
    /\ account_number = [c \in Clients |-> "acct-" \o c]
    /\ oauth_certificate = [c \in Clients |-> "token-" \o c]
    /\ response = [c \in Clients |-> NoResponse]
    /\ last = NoCall

\* The clients as constructed, against one remote account.
Init ==
    /\ InitClients
    /\ srv_watchlists = DefaultWatchlists
    /\ srv_candles = DefaultCandles

\* The clients as constructed, against any remote set of watchlists.
InitWatch ==
    /\ InitClients
    /\ srv_watchlists \in SeqsOf(WatchlistNames, 0, MaxWatchlists)
    /\ srv_candles = DefaultCandles

\* The clients as constructed, against any remote set of candles.
InitHist ==
    /\ InitClients
    /\ srv_watchlists = DefaultWatchlists
    /\ srv_candles \in [Symbols -> SUBSET Times]

GetWatchlists ==
    /\ Idle
    /\ \E c \in Clients, env \in ReadEnvs(1) :
        Ran(c, "get_watchlists", [none |-> TRUE], get_watchlists(Self(c), env))

GetWatchlist ==
    /\ Idle
    /\ \E c \in Clients, env \in ReadEnvs(2),
          id_num \in {None} \cup {Some(i) : i \in WatchlistIds},
          name \in {None} \cup {Some(n) : n \in WatchlistNames} :
        Ran(c, "get_watchlist", [id_num |-> id_num, name |-> name],
            get_watchlist(Self(c), id_num, name, env))

OptDates == {None} \cup {Some(d) : d \in GivenDates}

GetOrders ==
    /\ Idle
    /\ \E c \in Clients, env \in ReadEnvs(1), now \in Nows,
          from_date \in OptDates, to_date \in OptDates,
          order_status \in {None, Some("WORKING")} :
        Ran(c, "get_orders",
            [from_date |-> from_date, to_date |-> to_date, now |-> now,
             order_status |-> order_status],
            get_orders(Self(c), DefaultMaxResults, from_date, to_date,
                       order_status, now, env))

GetTransactions ==
    /\ Idle
    /\ \E c \in Clients, env \in ReadEnvs(1), now \in Nows,
          from_date \in OptDates, to_date \in OptDates,
          symbol \in {None, Some("A")} :
        Ran(c, "get_transactions",
            [from_date |-> from_date, to_date |-> to_date, now |-> now,
             symbol |-> symbol],
            get_transactions(Self(c), "TRADE", from_date, to_date, symbol,
                             now, env))

Instructions == {"BUY", "SELL", "BUY_TO_COVER", "SELL_SHORT", "EXCHANGE"}

\* prices and offsets, in thousandths
Prices == {12344, 12345}

\* quantities, in halves: 1, 1.5, ... MaxQty + 0.5
Quantities == 2..(2 * MaxQty + 1)

Durations == {"DAY", "GOOD_TILL_CANCEL"}

OrderIds == {"o1"}

CreateWatchlist ==
    /\ Idle
    /\ \E c \in Clients, env \in Envs(1), name \in WatchlistNames,
          symbols \in SeqsOf(Symbols, 0, 1) :
        Ran(c, "create_watchlist", [name |-> name, symbols |-> symbols],
            create_watchlist(Self(c), name, symbols, env))

ReplaceWatchlist ==
    /\ Idle
    /\ \E c \in Clients, env \in Envs(1), name \in WatchlistNames,
          id \in WatchlistIds, symbols \in SeqsOf(Symbols, 0, 1) :
        Ran(c, "replace_watchlist",
            [watchlist_id |-> id, watchlist_name |-> name, symbols |-> symbols],
            replace_watchlist(Self(c), id, name, symbols, env))

LimitOrder ==
    /\ Idle
    /\ \E c \in Clients, env \in Envs(1), symbol \in Symbols, price \in Prices,
          quantity \in Quantities, duration \in Durations,
          instruction \in Instructions, place \in BOOLEAN :
        Ran(c, "limit_order",
            [symbol |-> symbol, instruction |-> instruction, place |-> place],
            limit_order(Self(c), symbol, price, quantity, duration, instruction,
                        place, env))

StopLimitOrder ==
    /\ Idle
    /\ \E c \in Clients, env \in Envs(1), symbol \in Symbols, price \in Prices,
          quantity \in Quantities, duration \in Durations,
          instruction \in Instructions, place \in BOOLEAN :
        Ran(c, "stop_limit_order",
            [symbol |-> symbol, instruction |-> instruction, place |-> place],
            stop_limit_order(Self(c), symbol, instruction, quantity, duration,
                             price, price + 5, place, env))

TrailingStopOrder ==
    /\ Idle
    /\ \E c \in Clients, env \in Envs(1), symbol \in Symbols, price \in Prices,
          quantity \in Quantities, duration \in Durations,
          instruction \in Instructions, place \in BOOLEAN :
        Ran(c, "trailing_stop_order",
            [symbol |-> symbol, instruction |-> instruction, place |-> place],
            trailing_stop_order(Self(c), symbol, instruction, quantity, duration,
                                price, place, env))

TrailingStopLimitOrder ==
    /\ Idle
    /\ \E c \in Clients, env \in Envs(1), symbol \in Symbols, price \in Prices,
          quantity \in Quantities, duration \in Durations,
          instruction \in Instructions, place \in BOOLEAN :
        Ran(c, "trailing_stop_limit_order",
            [symbol |-> symbol, instruction |-> instruction, place |-> place],
            trailing_stop_limit_order(Self(c), symbol, instruction, quantity,
                                      duration, price, place, env))

BracketOrder ==
    /\ Idle
    /\ \E c \in Clients, env \in Envs(1), symbol \in Symbols, price \in Prices,
          quantity \in Quantities, duration \in Durations,
          instruction \in Instructions :
        Ran(c, "bracket_order",
            [symbol |-> symbol, instruction |-> instruction, place |-> TRUE],
            bracket_order(Self(c), symbol, instruction, price, quantity,
                          price + 5, duration, env))

OtoLimitTrailOrder ==
    /\ Idle
    /\ \E c \in Clients, env \in Envs(1), symbol \in Symbols, price \in Prices,
          limit_quantity \in Quantities, trail_quantity \in Quantities,
          instruction \in Instructions :
        Ran(c, "oto_limit_trail_order",
            [symbol |-> symbol, instruction |-> instruction, place |-> TRUE],
            oto_limit_trail_order(Self(c), symbol, instruction, price,
                                  limit_quantity, price, trail_quantity,
                                  price + 5, env))

CancelOrder ==
    /\ Idle
    /\ \E c \in Clients, env \in Envs(1), order_id \in OrderIds :
        Ran(c, "cancel_order", [order_id |-> order_id],
            cancel_order(Self(c), order_id, env))

ReplaceOrder ==
    /\ Idle
    /\ \E c \in Clients, env \in Envs(1), order_id \in OrderIds,
          symbol \in Symbols, price \in Prices :
        Ran(c, "replace_order", [order_id |-> order_id],
            replace_order(Self(c), order_id,
                          limit_order_data(symbol, price, 2, "DAY", "BUY"), env))

FrequencyTypes == {"daily", "minute"}

GetPriceHistory ==
    /\ Idle
    /\ \E c \in Clients, symbols \in SeqsOf(Symbols, 1, MaxSymbols),
          frequency_type \in FrequencyTypes :
        \E env \in ReadEnvs(Len(symbols)) :
            Ran(c, "get_price_history",
                [symbols |-> symbols, frequency_type |-> frequency_type],
                get_price_history(Self(c), symbols, frequency_type,
                                  Datetime(MaxDay - 40, 1), Datetime(MaxDay, 1),
                                  env))

\* A symbols argument: a ticker as a str, or a list of at most n symbols.
SymbolsArgs(n) ==
    {PyStr(s) : s \in Tickers} \cup {PyList(l) : l \in SeqsOf(Symbols, 1, n)}

GetQuotes ==
    /\ Idle
    /\ \E c \in Clients, symbols \in SymbolsArgs(MaxSymbols - 1), env \in ReadEnvs(1) :
        Ran(c, "get_quotes", [symbols |-> symbols, env |-> env],
            get_quotes(Self(c), symbols, env))

GetFundamental ==
    /\ Idle
    /\ \E c \in Clients, symbols \in SymbolsArgs(MaxSymbols - 1), env \in ReadEnvs(1) :
        Ran(c, "get_fundamental", [symbols |-> symbols, env |-> env],
            get_fundamental(Self(c), symbols, env))

\* strike_count=5 (line 763)
DefaultStrikeCount == 5

GetOptionsChain ==
    /\ Idle
    /\ \E c \in Clients, symbols \in SymbolsArgs(MaxSymbols), strike \in {None, Some(100)} :
        \E env \in ReadEnvs(Len(symbols_as_list(symbols))) :
            Ran(c, "get_options_chain",
                [symbols |-> symbols, strike |-> strike, env |-> env],
                get_options_chain(Self(c), symbols, "CALL", DefaultStrikeCount,
                                  TRUE, "SINGLE", strike,
                                  Datetime(MaxDay, 1), Datetime(MaxDay + 40, 1),
                                  env))

GetMovers ==
    /\ Idle
    /\ \E c \in Clients, failAt \in 0..MoversRequests, no_append \in BOOLEAN :
        Ran(c, "get_movers", [none |-> TRUE],
            get_movers(Self(c), [failAt |-> failAt, no_append |-> no_append]))

\* An order as the orders endpoint returns it, with nlegs legs.
ApiOrder(id, complex, quantity, remaining, nlegs, duration) ==
    [orderId |-> id, complexOrderStrategyType |-> complex,
     quantity |-> quantity, remainingQuantity |-> remaining,
     price |-> 1234, session |-> "NORMAL", orderType |-> "LIMIT",
     duration |-> duration, cancelTime |-> "2020-12-31",
     orderLegCollection |->
        [k \in 1..nlegs |->
            [instruction |-> IF k = 1 THEN "BUY" ELSE "SELL",
             quantity |-> quantity, positionEffect |-> "OPENING",
             instrument |-> [symbol |-> "A", assetType |-> "EQUITY"]]]]

\* Orders without children, by shape: two of the simple shape (1, 2) and
\* one for each way of not having it (complex strategy, partly filled, two
\* legs).
FlatShapes == 1..5

FlatOrder(id, shape) ==
    CASE shape = 1 -> ApiOrder(id, "NONE", 2, 2, 1, "DAY")
      [] shape = 2 -> ApiOrder(id, "NONE", 2, 2, 1, "GOOD_TILL_CANCEL")
      [] shape = 3 -> ApiOrder(id, "COVERED", 2, 2, 1, "DAY")
      [] shape = 4 -> ApiOrder(id, "NONE", 2, 1, 1, "DAY")
      [] OTHER -> ApiOrder(id, "NONE", 2, 2, 2, "DAY")

\* order with childOrderStrategies = [child]
WithChild(order, child) ==
    [k \in DOMAIN order \cup {"childOrderStrategies"} |->
        IF k = "childOrderStrategies" THEN <<child>> ELSE order[k]]

\* The shape of an order and of its child (0: it carries none).
OrderShapes == FlatShapes \X ({0} \cup FlatShapes)

\* The i-th order of a list: its id, and its child's, tell its place.
ApiOrderAt(i, shape) ==
    LET id == "o" \o ToString(i)
        order == FlatOrder(id, shape[1])
    IN  IF shape[2] = 0 THEN order
        ELSE WithChild(order, FlatOrder(id \o "c", shape[2]))

FormatOrders ==
    /\ Idle
    /\ \E c \in Clients, n \in 0..MaxOrders :
        \E shapes \in [1..n -> OrderShapes] :
            LET orders == [i \in 1..n |-> ApiOrderAt(i, shapes[i])]
            IN  Ran(c, "format_orders", [orders |-> orders],
                    format_orders(Self(c), orders))

\* The caller takes the outcome of the call.
Return ==
    /\ last # NoCall
    /\ last' = NoCall
    /\ UNCHANGED <<account_number, oauth_certificate, response,
                   srv_watchlists, srv_candles>>

Next ==
    \/ GetWatchlists
    \/ GetWatchlist
    \/ GetOrders
    \/ GetTransactions
    \/ GetPriceHistory
    \/ CancelOrder
    \/ ReplaceOrder
    \/ CreateWatchlist
    \/ ReplaceWatchlist
    \/ LimitOrder
    \/ StopLimitOrder
    \/ TrailingStopOrder
    \/ TrailingStopLimitOrder
    \/ BracketOrder
    \/ OtoLimitTrailOrder
    \/ Return

Spec == Init /\ [][Next]_vars

\* Watchlist lookups against any remote set of watchlists.
NextWatch ==
    \/ GetWatchlists
    \/ GetWatchlist
    \/ Return

SpecWatch == InitWatch /\ [][NextWatch]_vars

\* Price history against any remote set of candles.
NextHist ==
    \/ GetPriceHistory
    \/ Return

SpecHist == InitHist /\ [][NextHist]_vars

\* Market data: the operations that take a list of symbols.
NextMarket ==
    \/ GetQuotes
    \/ GetFundamental
    \/ GetOptionsChain
    \/ GetPriceHistory
    \/ Return

SpecMarket == Init /\ [][NextMarket]_vars

\* The step is a method call on client c.
CallOn(c) == last'.client = c

\* The operations that send more than one request, called on one client:
\* what a call does to a client depends on no other client.
NextSeveral ==
    \/ GetWatchlist /\ CallOn("c1")
    \/ GetPriceHistory /\ CallOn("c1")
    \/ GetOptionsChain /\ CallOn("c1")
    \/ GetMovers /\ CallOn("c1")
    \/ Return

SpecSeveral == Init /\ [][NextSeveral]_vars

\* Order formatting over lists of orders.
NextFormat ==
    \/ FormatOrders
    \/ Return

SpecFormat == Init /\ [][NextFormat]_vars

-----------------------------------------------------------------------------
(* Properties *)

\* The client of the call in progress, as it was when the call began.
SelfBefore ==
    [account_number |-> account_number[last.client],
     oauth_certificate |-> oauth_certificate[last.client],
     response |-> last.before]

\* No request of the call in progress met an HTTP error.
AllRequestsOk == \A k \in 1..Len(last.net) : last.net[k].status = "ok"

\* The transport fails nothing.
NoFailure == [failAt |-> 0, anyjson |-> FALSE]

\* A get_watchlist(name=n) call, no id given, whose list request was answered.
LookupByName(n) ==
    /\ last.op = "get_watchlist"
    /\ last.args.id_num = None
    /\ last.args.name = Some(n)
    /\ Len(last.net) >= 1
    /\ last.net[1].status = "ok"

ListedNames == {srv_watchlists[i] : i \in 1..Len(srv_watchlists)}

\* C1: get_watchlist by a name that no listed watchlist has fails with a
\* not-found (invalid-argument) condition and issues no fetch-by-id request:
\* the list request is the only one it sends.
C1_MissingNameFailsNotFound ==
    \A n \in WatchlistNames :
        (LookupByName(n) /\ n \notin ListedNames)
            => (last.exc = "ValueError" /\ Len(last.net) = 1)

\* C9 as stated: for ANY listed watchlist, lookup by its name returns what
\* lookup by its watchlistId returns, and ends with the same fetch request.
C9_AnyListedNameEqualsId ==
    \A i \in 1..Len(srv_watchlists) :
        (LookupByName(srv_watchlists[i]) /\ AllRequestsOk)
            => LET byId == get_watchlist(SelfBefore, Some(WatchlistId(i)), None,
                                         NoFailure)
               IN  /\ last.ret = byId.ret
                   /\ last.net[Len(last.net)] = byId.net[1]

\* The i-th listed watchlist is the first of its name in the list.
FirstOfItsName(i) == \A k \in 1..(i - 1) : srv_watchlists[k] # srv_watchlists[i]

\* C9 (amended): for a listed watchlist that is the first of its name in the
\* list, lookup by name sends the list request and then the very fetch
\* request lookup by its watchlistId sends, returns the same result and
\* leaves the same last response.
C9_FirstListedNameEqualsId ==
    \A i \in 1..Len(srv_watchlists) :
        (LookupByName(srv_watchlists[i]) /\ AllRequestsOk /\ FirstOfItsName(i))
            => LET byId == get_watchlist(SelfBefore, Some(WatchlistId(i)), None,
                                         NoFailure)
               IN  /\ byId.exc = "" /\ last.exc = ""
                   /\ last.ret = byId.ret
                   /\ Len(last.net) = 2
                   /\ last.net[1].url.path =
                          <<"accounts", account_number[last.client], "watchlists">>
                   /\ last.net[2] = byId.net[1]
                   /\ response[last.client] = byId.response
                   /\ last.ret.value.item.name = srv_watchlists[i]

\* A lookup by name found the second of two differently named watchlists.
C9_Witness ==
    /\ Len(srv_watchlists) = 2
    /\ srv_watchlists[1] # srv_watchlists[2]
    /\ LookupByName(srv_watchlists[2])
    /\ AllRequestsOk
    /\ last.exc = ""
    /\ last.ret.value.item.watchlistId = WatchlistId(2)

\* A get_price_history call all of whose requests were answered, over a list
\* in which some symbol has candles and some symbol has none.
PartialHistory ==
    /\ last.op = "get_price_history"
    /\ Len(last.net) = Len(last.args.symbols)
    /\ AllRequestsOk
    /\ \E s \in SymbolsOf(last.args.symbols) : srv_candles[s] # {}
    /\ \E s \in SymbolsOf(last.args.symbols) : srv_candles[s] = {}

\* C2: get_price_history over a list in which some symbol returns candles
\* and some symbol returns none, wherever the empty one stands, completes
\* and returns a table whose columns are those of the symbols with candles.
C2_EmptySymbolSkipped ==
    PartialHistory
        => /\ last.exc = ""
           /\ last.ret.kind = "bars"
           /\ last.ret.columns =
                  {s \in SymbolsOf(last.args.symbols) : srv_candles[s] # {}}

SimpleBuilders == {"limit_order", "stop_limit_order", "trailing_stop_order",
                   "trailing_stop_limit_order"}

TriggerBuilders == {"bracket_order", "oto_limit_trail_order"}

WriteOps == {"create_watchlist", "replace_watchlist", "cancel_order",
             "replace_order"} \cup SimpleBuilders \cup TriggerBuilders

\* The call in progress is a write whose arguments are valid: an order
\* builder was given an instruction it knows.
ValidWrite ==
    /\ last.op \in WriteOps
    /\ last.op \in SimpleBuilders \cup {"bracket_order"}
          => last.args.instruction \in {"BUY", "SELL", "BUY_TO_COVER", "SELL_SHORT"}
    /\ last.op = "oto_limit_trail_order" => last.args.instruction \in {"BUY", "SELL"}

\* C3: every write operation called with valid arguments issues exactly one
\* _send_request, the order builders both with place=False and place=True.
C3_WriteSendsOneRequest ==
    ValidWrite => Len(last.net) = 1

\* The HTTP method that fits a write operation.
ProperMethod(op) ==
    IF op \in {"replace_watchlist", "replace_order"} THEN "PUT"
    ELSE IF op = "cancel_order" THEN "DELETE"
    ELSE "POST"

\* C4: every request a write operation issues uses the method that fits it
\* (POST to create, PUT to replace, DELETE to cancel), and none sends its
\* JSON body with GET.
C4_WriteUsesProperMethod ==
    last.op \in WriteOps
        => \A k \in 1..Len(last.net) :
               /\ last.net[k].method = ProperMethod(last.op)
               /\ ~(last.net[k].method = "GET" /\ last.net[k].data # None)

\* The k-th _send_request of the call in progress returned normally.
RequestSucceeded(k) ==
    /\ last.net[k].status = "ok"
    /\ k = Len(last.net) => last.exc \notin {"HTTPError", "JSONDecodeError"}

\* C5: after a successful _send_request, a GET has stored the parsed JSON
\* body as the last response, and a PUT, POST or DELETE has not tried to
\* parse a response body as JSON.
C5_OnlyGetParses ==
    last.op # "idle"
        => \A k \in 1..Len(last.net) :
               RequestSucceeded(k)
                   => /\ last.net[k].method = "GET"
                         => /\ last.net[k].parsed
                            /\ k = Len(last.net)
                                  => response[last.client].kind = "json"
                      /\ last.net[k].method \in {"PUT", "POST", "DELETE"}
                         => ~last.net[k].parsed

\* C6: when the transport reports an HTTP error for a request, the public
\* operation ends with that error (it does not return normally) and sends
\* nothing after it: no retry, no further request.
C6_HttpErrorPropagates ==
    last.op # "idle"
        => \A k \in 1..Len(last.net) :
               last.net[k].status = "HTTPError"
                   => /\ last.exc = "HTTPError"
                      /\ last.ret = NoValue
                      /\ k = Len(last.net)

\* The second request of a multi-request operation met an HTTP error.
C6_Witness ==
    /\ last.op = "get_price_history"
    /\ Len(last.net) = 2
    /\ last.net[1].status = "ok"
    /\ last.net[2].status = "HTTPError"
    /\ last.exc = "HTTPError"

\* The body the call in progress built.
BuiltBody == last.built[1]

\* C8 as stated: a simple builder's body has exactly one leg; a body built
\* by bracket_order or oto_limit_trail_order has exactly one leg at top
\* level and exactly one nested child order.
C8_OneLegOneChild ==
    /\ (last.op \in SimpleBuilders /\ last.built # None)
          => Len(BuiltBody.orderLegCollection) = 1
    /\ (last.op \in TriggerBuilders /\ last.built # None)
          => /\ Len(BuiltBody.orderLegCollection) = 1
             /\ Len(BuiltBody.childOrderStrategies) = 1

\* C8 (amended): a simple builder's body has exactly one leg; bracket_order's
\* body has one leg and one nested child order; oto_limit_trail_order's body
\* has one leg and two nested child orders; every child has exactly one leg.
C8_OneLegChildrenPerKind ==
    /\ (last.op \in SimpleBuilders /\ last.built # None)
          => /\ Len(BuiltBody.orderLegCollection) = 1
             /\ "childOrderStrategies" \notin DOMAIN BuiltBody
    /\ (last.op \in TriggerBuilders /\ last.built # None)
          => /\ Len(BuiltBody.orderLegCollection) = 1
             /\ Len(BuiltBody.childOrderStrategies) =
                    (IF last.op = "bracket_order" THEN 1 ELSE 2)
             /\ \A k \in 1..Len(BuiltBody.childOrderStrategies) :
                    Len(BuiltBody.childOrderStrategies[k].orderLegCollection) = 1

\* oto_limit_trail_order built its body.
C8_Witness ==
    /\ last.op = "oto_limit_trail_order"
    /\ last.built # None
    /\ BuiltBody.orderStrategyType = "TRIGGER"
    /\ BuiltBody.childOrderStrategies[2].orderType = "TRAILING_STOP"

\* The day a request's date parameter names.
Ymd(day) == [ymd |-> day]

\* The date parameter of the request for a given or omitted date argument.
WindowEnd(arg, omitted) == IF arg = None THEN Ymd(omitted) ELSE Ymd(arg[1].day)

\* C10: with both dates omitted get_transactions asks for [today - 35 days,
\* today] and get_orders for [today - 1 day, today]; a date that is given
\* is the one the request names.
C10_DefaultWindows ==
    /\ last.op = "get_transactions"
          => /\ Len(last.net) = 1
             /\ last.net[1].url.query.startDate =
                    WindowEnd(last.args.from_date, last.args.now.day - 35)
             /\ last.net[1].url.query.endDate =
                    WindowEnd(last.args.to_date, last.args.now.day)
    /\ last.op = "get_orders"
          => /\ Len(last.net) = 1
             /\ last.net[1].url.query.fromEnteredTime =
                    WindowEnd(last.args.from_date, last.args.now.day - 1)
             /\ last.net[1].url.query.toEnteredTime =
                    WindowEnd(last.args.to_date, last.args.now.day)

\* get_transactions ran with both dates omitted.
C10_Witness ==
    /\ last.op = "get_transactions"
    /\ last.args.from_date = None
    /\ last.args.to_date = None
    /\ last.net[1].url.query.startDate.ymd + 35 = last.net[1].url.query.endDate.ymd

\* The order itself has the simple shape: no complex strategy, full quantity
\* remaining, a single leg.
SimpleShape(order) ==
    /\ order.complexOrderStrategyType = "NONE"
    /\ order.quantity = order.remainingQuantity
    /\ Len(order.orderLegCollection) = 1

\* The table returned holds, in row k, the flat record of the order.
RowCarries(k, order) ==
    LET row == last.ret.rows[k]
        leg == order.orderLegCollection[1]
    IN  /\ last.ret.index[k] = order.orderId
        /\ row.price = order.price
        /\ row.session = order.session
        /\ row.type = order.orderType
        /\ row.duration = order.duration
        /\ row.symbol = leg.instrument.symbol
        /\ row.instruction = leg.instruction
        /\ row.quantity = leg.quantity
        /\ row.position_effect = leg.positionEffect

\* format_orders ran on a list of one order.
FormatOne == last.op = "format_orders" /\ Len(last.args.orders) = 1

\* C7 as stated: format_orders of a single-leg, full-quantity, non-complex
\* order returns its flat record; of a multi-leg or complex-strategy order
\* it raises the not-implemented condition.
C7_SimpleFormatsElseRaises ==
    FormatOne
        => LET order == last.args.orders[1]
           IN  /\ SimpleShape(order)
                     => (last.exc = "" /\ RowCarries(1, order))
               /\ (Len(order.orderLegCollection) > 1
                     \/ order.complexOrderStrategyType # "NONE")
                     => last.exc = "NotImplementedError"

\* The order carries no child order, or its first child has the simple shape.
ChildSimple(order) ==
    "childOrderStrategies" \in DOMAIN order
        => SimpleShape(order.childOrderStrategies[1])

\* C7 (amended): format_orders of a single-leg, full-quantity, non-complex
\* order that carries no child order, or whose first child order has that
\* shape as well, returns its flat record; of a multi-leg or
\* complex-strategy order it raises the not-implemented condition.
C7_SimpleWithSimpleChildFormats ==
    FormatOne
        => LET order == last.args.orders[1]
           IN  /\ (SimpleShape(order) /\ ChildSimple(order))
                     => (last.exc = "" /\ RowCarries(1, order))
               /\ (Len(order.orderLegCollection) > 1
                     \/ order.complexOrderStrategyType # "NONE")
                     => (last.exc = "NotImplementedError" /\ last.ret = NoValue)

\* A simple order carrying a simple child order was formatted.
C7_Witness ==
    /\ FormatOne
    /\ SimpleShape(last.args.orders[1])
    /\ "childOrderStrategies" \in DOMAIN last.args.orders[1]
    /\ last.exc = ""
    /\ last.ret.index = <<"o1", "o1c">>

\* The call in progress is `op` given the one symbol s, as a str or as a
\* list of that one symbol.
OneSymbolCall(op, s) ==
    /\ last.op = op
    /\ last.args.symbols \in {PyStr(s), PyList(<<s>>)}

\* The call in progress ended as the outcome `out` says.
EndedAs(out) ==
    /\ last.net = out.net
    /\ last.exc = out.exc
    /\ last.ret = out.ret
    /\ response[last.client] = out.response

\* C11: for every symbol s, get_quotes(s) and get_quotes([s]) issue the same
\* single request, which names s, and return the same output given the same
\* response; likewise get_fundamental(s) and get_fundamental([s]).
C11_StrEqualsSingletonList ==
    \A s \in Tickers :
        /\ OneSymbolCall("get_quotes", s)
              => /\ Len(last.net) = 1
                 /\ last.net[1].url.query.symbol = s
                 /\ EndedAs(get_quotes(SelfBefore, PyStr(s), last.args.env))
                 /\ EndedAs(get_quotes(SelfBefore, PyList(<<s>>), last.args.env))
        /\ OneSymbolCall("get_fundamental", s)
              => /\ Len(last.net) = 1
                 /\ last.net[1].url.query.symbol = s
                 /\ EndedAs(get_fundamental(SelfBefore, PyStr(s), last.args.env))
                 /\ EndedAs(get_fundamental(SelfBefore, PyList(<<s>>),
                                            last.args.env))

\* get_fundamental was given a ticker of two characters as a str and
\* returned that ticker's row.
C11_Witness ==
    /\ last.op = "get_fundamental"
    /\ last.args.symbols = PyStr("AB")
    /\ last.exc = ""
    /\ DOMAIN last.ret.rows = {"AB"}

\* The largest of a non-empty set of numbers.
Max(S) == CHOOSE x \in S : \A y \in S : y <= x

\* C12: the table get_price_history returns has a row for every timestamp
\* of every symbol that returned candles (the union of the timestamps), and
\* a symbol without a candle at a row's timestamp shows there its latest
\* earlier value.
C12_IndexIsUnionOfTimestamps ==
    (last.op = "get_price_history" /\ last.exc = "")
        => LET index == last.ret.index
               stamps == UNION {srv_candles[s] : s \in SymbolsOf(last.args.symbols)}
           IN  /\ {index[k].stamp : k \in 1..Len(index)} = stamps
               /\ \A d \in last.ret.columns, k \in 1..Len(index) :
                      LET earlier == {u \in srv_candles[d] : u <= index[k].stamp}
                      IN  last.ret.close[d][k] =
                              (IF earlier = {} THEN 0 ELSE Max(earlier))

\* C13: get_price_history and get_options_chain over a list of n symbols
\* send their requests one per symbol in the order of the list, a request
\* only after the one before it was answered, and exactly n of them when
\* the call ends without an error.
C13_OneRequestPerSymbolInOrder ==
    /\ last.op = "get_price_history"
          => /\ Len(last.net) <= Len(last.args.symbols)
             /\ last.exc = "" => Len(last.net) = Len(last.args.symbols)
             /\ \A i \in 1..Len(last.net) :
                    /\ last.net[i].url.path =
                           <<"marketdata", last.args.symbols[i], "pricehistory">>
                    /\ i < Len(last.net) => last.net[i].status = "ok"
    /\ (last.op = "get_options_chain" /\ last.args.symbols.type = "list")
          => LET symbols == last.args.symbols.items
             IN  /\ Len(last.net) <= Len(symbols)
                 /\ last.exc = "" => Len(last.net) = Len(symbols)
                 /\ \A i \in 1..Len(last.net) :
                        /\ last.net[i].url.path = <<"marketdata", "chains">>
                        /\ last.net[i].url.query.symbol = symbols[i]
                        /\ i < Len(last.net) => last.net[i].status = "ok"

\* get_options_chain ran over three symbols and returned both chains.
C13_Witness ==
    /\ last.op = "get_options_chain"
    /\ last.args.symbols = PyList(<<"B", "A", "B">>)
    /\ last.exc = ""
    /\ Len(last.net) = 3
    /\ DOMAIN last.ret.by = {"A", "B"}

\* get_fundamental was given a list of symbols and every request was answered.
FundamentalOfList ==
    /\ last.op = "get_fundamental"
    /\ last.args.symbols.type = "list"
    /\ last.exc = ""

C15_CredentialsFixed ==
    /\ account_number = [c \in Clients |-> "acct-" \o c]
    /\ oauth_certificate = [c \in Clients |-> "token-" \o c]
    /\ last # NoCall
          => \A k \in 1..Len(last.net) :
                 last.net[k].authorization = "token-" \o last.client

\* Both clients have been used, and the call in progress met an HTTP error.
C15_Witness ==
    /\ last # NoCall
    /\ last.exc = "HTTPError"
    /\ last.before # NoResponse
    /\ \A c \in Clients : response[c] # NoResponse
    /\ oauth_certificate[last.client] = "token-" \o last.client

\* The slot holds what _send_request stores for the answered request w.
Stored(slot, w) ==
    IF w.data = None
    THEN slot = [kind |-> "json", value |-> Serve(w.url, w.method, TRUE).value]
    ELSE slot.kind = "HTTPResponse"

\* C16 as stated: after a call that issued requests, the client's slot holds
\* the response of the most recent request issued (the error, when the
\* transport answered with one).
C16_SlotHoldsMostRecentResponse ==
    (last # NoCall /\ Len(last.net) >= 1)
        => LET w == last.net[Len(last.net)]
           IN  IF w.status = "ok"
               THEN Stored(response[last.client], w)
               ELSE response[last.client].kind = "error"

\* The requests of `call` whose _send_request returned normally.
Completed(call) ==
    {k \in 1..Len(call.net) :
        /\ call.net[k].status = "ok"
        /\ k = Len(call.net) => call.exc \notin {"HTTPError", "JSONDecodeError"}}

\* C16 (amended): a call on one client leaves every other client's slot as
\* it was; the client's own slot then holds the response of the most recent
\* request of the call that _send_request completed, and is as it was
\* before the call when the call completed none.
C16_SlotHoldsLastCompletedResponse ==
    [][last' # NoCall
          => /\ \A c \in Clients \ {last'.client} : response'[c] = response[c]
             /\ last'.before = response[last'.client]
             /\ IF Completed(last') = {}
                THEN response'[last'.client] = response[last'.client]
                ELSE Stored(response'[last'.client],
                            last'.net[Max(Completed(last'))])]_vars

\* A call on c1 met an HTTP error and left c1's earlier response in the
\* slot, while c2 holds a different response.
C16_Witness ==
    /\ last # NoCall
    /\ last.client = "c1"
    /\ last.exc = "HTTPError"
    /\ last.before # NoResponse
    /\ response["c1"] = last.before
    /\ response["c2"] # NoResponse
    /\ response["c2"] # response["c1"]

\* get_watchlist was called with neither an id nor a name.
NeitherIdNorName ==
    /\ last.op = "get_watchlist"
    /\ last.args.id_num = None
    /\ last.args.name = None

ToLiveOrders(k) ==
    last.net[k].url.path = <<"accounts", account_number[last.client], "orders">>

\* The same for the endpoint of saved orders.
ToSavedOrders(k) ==
    last.net[k].url.path =
        <<"accounts", account_number[last.client], "savedorders">>

\* C18: an order builder called with place=False issues its one request to
\* the saved-orders endpoint and none to the live-orders endpoint; a request
\* to the live-orders endpoint comes only from a builder call that asked
\* for a live order.
C18_SavedOrderNeverPlaced ==
    last # NoCall
        => /\ (last.op \in SimpleBuilders /\ ~last.args.place)
                 => /\ Len(last.net) = 1
                    /\ ToSavedOrders(1)
                    /\ last.net[1].data = last.built
           /\ \A k \in 1..Len(last.net) :
                  ToLiveOrders(k)
                      => /\ last.op \in SimpleBuilders \cup TriggerBuilders
                         /\ last.args.place

\* A limit order was saved, not placed.
C18_Witness ==
    /\ last.op = "limit_order"
    /\ ~last.args.place
    /\ last.exc = ""
    /\ ToSavedOrders(1)
    /\ last.net[1].status = "ok"

\* The instruction that closes what an instruction opens.
Opposite(instruction) ==
    CASE instruction = "BUY" -> "SELL"
      [] instruction = "SELL" -> "BUY"
      [] instruction = "BUY_TO_COVER" -> "SELL_SHORT"
      [] instruction = "SELL_SHORT" -> "BUY_TO_COVER"

BracketInstructions == {"BUY", "SELL", "BUY_TO_COVER", "SELL_SHORT"}

\* C19: in the body bracket_order builds, the child's instruction is the
\* opposite of the parent's (BUY <-> SELL, BUY_TO_COVER <-> SELL_SHORT, the
\* opposite of the opposite being the instruction itself) and the child's
\* quantity and symbol are the parent's; called with any other instruction
\* it fails before a request is issued.
C19_BracketChildOpposes ==
    last.op = "bracket_order"
        => IF last.args.instruction \in BracketInstructions
           THEN LET parent == BuiltBody.orderLegCollection[1]
                    child == BuiltBody.childOrderStrategies[1].orderLegCollection[1]
                IN  /\ parent.instruction = last.args.instruction
                    /\ child.instruction = Opposite(parent.instruction)
                    /\ Opposite(child.instruction) = parent.instruction
                    /\ child.quantity = parent.quantity
                    /\ child.instrument.symbol = parent.instrument.symbol
                    /\ parent.instrument.symbol = last.args.symbol
                    /\ Len(last.net) = 1
                    /\ last.net[1].data = last.built
           ELSE /\ last.exc = "UnboundLocalError"
                /\ last.net = << >>
                /\ last.built = None

\* bracket_order placed a short sale with its covering child.
C19_Witness ==
    /\ last.op = "bracket_order"
    /\ last.args.instruction = "SELL_SHORT"
    /\ last.exc = ""
    /\ Len(last.net) = 1
    /\ BuiltBody.childOrderStrategies[1].orderLegCollection[1].instruction
           = "BUY_TO_COVER"

\* The order and, when it carries child orders, its first child have the
\* simple shape.
Formattable(order) == SimpleShape(order) /\ ChildSimple(order)

\* The ids of the rows of the table: each order's, followed by its first
\* child's when it carries child orders, in the order of the list.
RECURSIVE RowIds(_)
RowIds(orders) ==
    IF Len(orders) = 0 THEN << >>
    ELSE LET order == Head(orders)
         IN  (IF "childOrderStrategies" \in DOMAIN order
              THEN <<order.orderId, order.childOrderStrategies[1].orderId>>
              ELSE <<order.orderId>>) \o RowIds(Tail(orders))

\* C20: format_orders is all-or-nothing.  When every order, and the first
\* child of every order carrying child orders, has the simple shape, the
\* table has one row per order plus one per order carrying child orders,
\* each parent's row immediately followed by its child's, in the order of
\* the list; otherwise the call raises and returns no table.
C20_AllOrNothing ==
    last.op = "format_orders"
        => LET orders == last.args.orders
               carrying == {i \in 1..Len(orders) :
                               "childOrderStrategies" \in DOMAIN orders[i]}
           IN  IF \A i \in 1..Len(orders) : Formattable(orders[i])
               THEN /\ last.exc = ""
                    /\ Len(last.ret.rows) = Len(orders) + Cardinality(carrying)
                    /\ last.ret.index = RowIds(orders)
               ELSE /\ last.exc = "NotImplementedError"
                    /\ last.ret = NoValue

\* Two orders were formatted, the first carrying a child order.
C20_Witness ==
    /\ last.op = "format_orders"
    /\ last.exc = ""
    /\ last.ret.index = <<"o1", "o1c", "o2">>

\* The k-th request of the call in progress met an HTTP error.
HttpErrorAt(k) == last.net[k].status = "HTTPError"

\* C21 as stated: when a request fails with an HTTP error the slot holds the
\* value it had before the call, and the failing request is the last one of
\* the call.
C21_FailureLeavesSlotOfBeforeCall ==
    last # NoCall
        => \A k \in 1..Len(last.net) :
               HttpErrorAt(k)
                   => /\ response[last.client] = last.before
                      /\ k = Len(last.net)

\* C21 (amended): when a request fails with an HTTP error the call ends with
\* that error, the failing request is the last one of the call, the
\* credentials are as constructed and the slot holds the value it had before
\* that request: the value of before the call for the first request of the
\* call, the response of the request before it otherwise.
C21_FailureLeavesSlotOfBeforeRequest ==
    last # NoCall
        => \A k \in 1..Len(last.net) :
               HttpErrorAt(k)
                   => /\ k = Len(last.net)
                      /\ last.exc = "HTTPError"
                      /\ last.ret = NoValue
                      /\ account_number[last.client] = "acct-" \o last.client
                      /\ oauth_certificate[last.client] = "token-" \o last.client
                      /\ IF k = 1
                         THEN response[last.client] = last.before
                         ELSE /\ last.net[k - 1].status = "ok"
                              /\ Stored(response[last.client], last.net[k - 1])

\* get_movers failed on the first request of its second pass, on a client
\* that held another response before the call.
C21_Witness ==
    /\ last.op = "get_movers"
    /\ Len(last.net) = Len(MoverPairs) + 1
    /\ HttpErrorAt(Len(last.net))
    /\ last.before.kind = "json"
    /\ last.before.value.kind # "movers"
    /\ response[last.client].value.list = MoversJSON("$COMPX", "down", "percent")

====
